---- MODULE Spec2Model ----
(***************************************************************************)
(* Model of mcp-searxng (src/index.ts): the Text Normalizer                *)
(* (removeLinksFromText), the Search Client (performWebSearch), the        *)
(* Markdown Converter (fetchAndConvertToMarkdown) and the Tool Dispatcher  *)
(* (the CallToolRequestSchema handler).                                    *)
(*                                                                         *)
(* Texts are sequences of one-character strings; fixed literals of the     *)
(* source (labels, error messages) are kept as single multi-character      *)
(* elements of such a sequence, so that string concatenation is \o.        *)
(***************************************************************************)
EXTENDS Integers, Sequences, FiniteSets, TLC

\* ------------------------------------------------------------------------
\* Text Normalizer: removeLinksFromText, src/index.ts:122-135
\* ------------------------------------------------------------------------

\* JavaScript \s restricted to the characters the inputs use.
WhiteSpace == {" ", "\n"}

\* JavaScript \d restricted to the characters the inputs use.
Digit == {"0", "1", "2"}

Min(S) == CHOOSE x \in S : \A y \in S : x <= y

\* Index of the first occurrence of character c in s at or after from; 0 if none.
FirstIdx(s, from, c) ==
  LET S == {k \in from..Len(s) : s[k] = c}
  IN IF S = {} THEN 0 ELSE Min(S)

\* TRUE iff the literal lit occurs in s starting at index i.
LitAt(s, i, lit) ==
  /\ i + Len(lit) - 1 <= Len(s)
  /\ \A k \in 1..Len(lit) : s[i + k - 1] = lit[k]

\* Last index of the maximal run of characters not in class C that starts
\* at from (from - 1 when the run is empty): a greedy [^C]* .
RunEndNotIn(s, from, C) ==
  LET Stops == {k \in from..Len(s) : s[k] \in C}
  IN IF Stops = {} THEN Len(s) ELSE Min(Stops) - 1

\* Last index of the maximal run of characters in class C that starts at from.
RunEndIn(s, from, C) ==
  LET Stops == {k \in from..Len(s) : s[k] \notin C}
  IN IF Stops = {} THEN Len(s) ELSE Min(Stops) - 1

\* /\[([^\]]*)\]\([^\)]+\)/ anchored at i: <<index of "]", index of ")">>,
\* or <<0, 0>> when the pattern does not match at i.
MdLinkMatch(s, i) ==
  IF i > Len(s) \/ s[i] # "[" THEN <<0, 0>>
  ELSE LET j == FirstIdx(s, i + 1, "]")
       IN IF j = 0 \/ j + 1 > Len(s) \/ s[j + 1] # "(" THEN <<0, 0>>
          ELSE LET k == FirstIdx(s, j + 2, ")")
               IN IF k = 0 \/ k < j + 3 THEN <<0, 0>> ELSE <<j, k>>

RECURSIVE ReplaceMdLinksFrom(_, _)
ReplaceMdLinksFrom(s, i) ==
  IF i > Len(s) THEN <<>>
  ELSE LET m == MdLinkMatch(s, i)
       IN IF m[2] = 0 THEN <<s[i]>> \o ReplaceMdLinksFrom(s, i + 1)
          ELSE SubSeq(s, i + 1, m[1] - 1) \o ReplaceMdLinksFrom(s, m[2] + 1)

\* .replace(/\[([^\]]*)\]\([^\)]+\)/g, '$1')
ReplaceMdLinks(s) == ReplaceMdLinksFrom(s, 1)

\* /https?:\/\/[^\s]+/ anchored at i: index of the last matched character, or 0.
HttpMatchEnd(s, i) ==
  IF ~LitAt(s, i, <<"h", "t", "t", "p">>) THEN 0
  ELSE LET p == IF i + 4 <= Len(s) /\ s[i + 4] = "s" THEN i + 5 ELSE i + 4
       IN IF /\ LitAt(s, p, <<":", "/", "/">>)
             /\ p + 3 <= Len(s)
             /\ s[p + 3] \notin WhiteSpace
          THEN RunEndNotIn(s, p + 3, WhiteSpace)
          ELSE 0

RECURSIVE RemoveHttpFrom(_, _)
RemoveHttpFrom(s, i) ==
  IF i > Len(s) THEN <<>>
  ELSE LET e == HttpMatchEnd(s, i)
       IN IF e = 0 THEN <<s[i]>> \o RemoveHttpFrom(s, i + 1)
          ELSE RemoveHttpFrom(s, e + 1)

\* .replace(/https?:\/\/[^\s]+/g, '')
RemoveHttp(s) == RemoveHttpFrom(s, 1)

\* /www\.[^\s]+/ anchored at i: index of the last matched character, or 0.
WwwMatchEnd(s, i) ==
  IF /\ LitAt(s, i, <<"w", "w", "w", ".">>)
     /\ i + 4 <= Len(s)
     /\ s[i + 4] \notin WhiteSpace
  THEN RunEndNotIn(s, i + 4, WhiteSpace)
  ELSE 0

RECURSIVE RemoveWwwFrom(_, _)
RemoveWwwFrom(s, i) ==
  IF i > Len(s) THEN <<>>
  ELSE LET e == WwwMatchEnd(s, i)
       IN IF e = 0 THEN <<s[i]>> \o RemoveWwwFrom(s, i + 1)
          ELSE RemoveWwwFrom(s, e + 1)

\* .replace(/www\.[^\s]+/g, '')
RemoveWww(s) == RemoveWwwFrom(s, 1)

\* /\[\d+\]/ anchored at i: index of the closing "]", or 0.
CitationMatchEnd(s, i) ==
  IF i > Len(s) \/ s[i] # "[" THEN 0
  ELSE LET e == RunEndIn(s, i + 1, Digit)
       IN IF e >= i + 1 /\ e + 1 <= Len(s) /\ s[e + 1] = "]" THEN e + 1 ELSE 0

RECURSIVE RemoveCitationsFrom(_, _)
RemoveCitationsFrom(s, i) ==
  IF i > Len(s) THEN <<>>
  ELSE LET e == CitationMatchEnd(s, i)
       IN IF e = 0 THEN <<s[i]>> \o RemoveCitationsFrom(s, i + 1)
          ELSE RemoveCitationsFrom(s, e + 1)

\* .replace(/\[\d+\]/g, '')
RemoveCitations(s) == RemoveCitationsFrom(s, 1)

RECURSIVE CollapseSpacesFrom(_, _)
CollapseSpacesFrom(s, i) ==
  IF i > Len(s) THEN <<>>
  ELSE IF s[i] \notin WhiteSpace THEN <<s[i]>> \o CollapseSpacesFrom(s, i + 1)
  ELSE LET e == RunEndIn(s, i, WhiteSpace)
       IN IF e >= i + 1 THEN <<" ">> \o CollapseSpacesFrom(s, e + 1)
          ELSE <<s[i]>> \o CollapseSpacesFrom(s, i + 1)

\* .replace(/\s{2,}/g, ' ')
CollapseSpaces(s) == CollapseSpacesFrom(s, 1)

\* .trim()
Trim(s) ==
  LET Keep == {k \in 1..Len(s) : s[k] \notin WhiteSpace}
  IN IF Keep = {} THEN <<>>
     ELSE SubSeq(s, Min(Keep), CHOOSE x \in Keep : \A y \in Keep : x >= y)

removeLinksFromText(text) ==
  Trim(CollapseSpaces(RemoveCitations(RemoveWww(RemoveHttp(ReplaceMdLinks(text))))))

\* Spec example input: "See [docs](http://example.com/x) [1]"
ExampleText ==
  <<"S", "e", "e", " ", "[", "d", "o", "c", "s", "]", "(",
    "h", "t", "t", "p", ":", "/", "/", "e", ".", "c", "/", "x", ")", " ",
    "[", "1", "]">>

\* ------------------------------------------------------------------------
\* Values, errors and envelopes
\* ------------------------------------------------------------------------

\* A JavaScript value of an argument bag: its typeof-like tag and its text.
Val(t, v) == [t |-> t, v |-> v]

\* A field that is absent from the argument bag reads as undefined.
Undefined == Val("undefined", "")

Str(v) == Val("string", v)

Num(v) == Val("number", v)

Null == Val("null", "")

\* An Error object: its name and its message.
Err(name, message) == [name |-> name, message |-> message]

NoError == Err("", <<>>)

\* The literal notice put in front of a result text (src/index.ts:281, 290);
\* the source literal is Chinese for "(the following is plain text content,
\* it does not contain images)" and is written here in ASCII.
Notice == <<"(the following is plain text content, it does not contain images)">>

\* An outcome of a piece of code: a returned value or a thrown error.
Return(value) == [kind |-> "return", value |-> value, err |-> NoError]

Throw(err) == [kind |-> "throw", value |-> <<>>, err |-> err]

\* ------------------------------------------------------------------------
\* Tool invocations
\* ------------------------------------------------------------------------

WEB_SEARCH_TOOL == "searxng_web_search"

READ_URL_TOOL == "web_url_read"

\* Tool names a caller may send: the two tools and an unknown one.
ToolNames == {WEB_SEARCH_TOOL, READ_URL_TOOL, "foo"}

NoFields ==
  [query |-> Undefined, pageno |-> Undefined, time_range |-> Undefined,
   language |-> Undefined, safesearch |-> Undefined, url |-> Undefined]

\* Argument bags that are objects: every field is absent or carries a value.
ObjectBags ==
  [query : {Undefined, Str("q"), Num("5")},
   pageno : {Undefined, Num("2"), Null},
   time_range : {Undefined, Str("day"), Str("month"), Str("year"),
                 Str("week"), Str("")},
   language : {Undefined, Str("all"), Str("en")},
   safesearch : {Undefined, Str("1"), Str("3")},
   url : {Undefined}]
    \cup [query : {Undefined, Str("q")}, pageno : {Undefined},
          time_range : {Undefined}, language : {Undefined},
          safesearch : {Undefined},
          url : {Undefined, Str("http://page"), Str("page")}]

\* request.params.arguments: absent, null, a primitive, or an object.
ArgBags ==
  {[kind |-> k, f |-> NoFields] : k \in {"undefined", "null", "string"}}
    \cup {[kind |-> "object", f |-> f] : f \in ObjectBags}

\* !args (src/index.ts:258)
Falsy(args) == args.kind \in {"undefined", "null"}

\* A check of the presence of query alone, without its type.
isSearXNGWebSearchArgsInOnly(args) ==
  /\ args.kind = "object"
  /\ args.f.query.t # "undefined"

isSearXNGWebSearchArgs(args) ==
  /\ args.kind = "object"
  /\ args.f.query.t # "undefined"
  /\ args.f.query.t = "string"

\* ------------------------------------------------------------------------
\* Search Client: performWebSearch, src/index.ts:137-215
\* ------------------------------------------------------------------------

\* Values of the SEARXNG_URL environment variable: unset, an absolute URL,
\* and a text that new URL() rejects.
EnvUrls == {"", "http://searx.local", "searx.local"}

DefaultSearxngUrl == "http://localhost:8080"

\* process.env.SEARXNG_URL || "http://localhost:8080"
SearxngUrl(e) == IF e = "" THEN DefaultSearxngUrl ELSE e

\* new URL(...) accepts only absolute URLs.
AbsoluteUrls == {DefaultSearxngUrl, "http://searx.local", "http://page"}

\* A filter that forwards every time_range that is given.
TimeRangeForwardedAny(time_range) == time_range.t # "undefined"

\* ["day", "month", "year"].includes(time_range)
TimeRangeForwarded(time_range) ==
  /\ time_range.t # "undefined"
  /\ time_range.t = "string" /\ time_range.v \in {"day", "month", "year"}

\* language && language !== "all", after the default "all" is applied
LanguageForwarded(language) ==
  LET l == IF language.t = "undefined" THEN Str("all") ELSE language
  IN l.t = "string" /\ l.v # "" /\ l.v # "all"

\* ["0", "1", "2"].includes(safesearch)
SafesearchForwarded(safesearch) ==
  /\ safesearch.t # "undefined"
  /\ safesearch.t = "string" /\ safesearch.v \in {"0", "1", "2"}

Optional(cond, key, value) == IF cond THEN key :> value ELSE <<>>

\* url.searchParams as built on lines 146-163: a function from the
\* parameter names that were set to their values.
SearchParams(f) ==
  LET pageno == IF f.pageno.t = "undefined" THEN Num("1") ELSE f.pageno
  IN [q |-> f.query.v, format |-> "json", pageno |-> pageno.v]
       @@ Optional(TimeRangeForwarded(f.time_range), "time_range", f.time_range.v)
       @@ Optional(LanguageForwarded(f.language), "language", f.language.v)
       @@ Optional(SafesearchForwarded(f.safesearch), "safesearch", f.safesearch.v)

\* The synchronous part of performWebSearch, up to the call of fetch:
\* the request it is about to issue, or the error it throws before.
SearchRequest(e, f) ==
  IF SearxngUrl(e) \notin AbsoluteUrls
  THEN Throw(Err("TypeError", <<"Invalid URL">>))
  ELSE IF f.pageno.t = "null"
  THEN Throw(Err("TypeError",
                 <<"Cannot read properties of null (reading 'toString')">>))
  ELSE Return([target |-> SearxngUrl(e), path |-> "/search",
               params |-> SearchParams(f)])

\* TRUE iff sub occurs in s: String.prototype.includes
Includes(s, sub) == \E i \in 1..Len(s) : LitAt(s, i, sub)

Video == <<"v", "i", "d", "e", "o">>

\* The body of the per-result callback (lines 180-202). An absent title,
\* content or url reads like the empty text (x || ""), an absent score
\* like 0 (result.score || 0).
ProcessResult(result) ==
  [title |-> removeLinksFromText(result.title),
   content |-> removeLinksFromText(result.content),
   url |-> IF result.url # <<>> /\ Includes(result.url, Video)
           THEN <<>> ELSE result.url,
   score |-> IF result.score = "" THEN "0" ELSE result.score]

\* The template literal of line 206.
RenderBlock(r) ==
  <<"Title: ">> \o r.title \o <<"\nDescription: ">> \o r.content
    \o <<"\nScore: ", r.score, "\nURL: ">> \o r.url

\* Array.prototype.join("\n\n")
RECURSIVE JoinBlocks(_)
JoinBlocks(blocks) ==
  IF blocks = <<>> THEN <<>>
  ELSE IF Len(blocks) = 1 THEN blocks[1]
  ELSE blocks[1] \o <<"\n\n">> \o JoinBlocks(Tail(blocks))

\* results.map(...).join("\n\n") (lines 204-214)
RenderResults(results) ==
  JoinBlocks([i \in 1..Len(results) |-> RenderBlock(results[i])])

\* Results of the aggregator's JSON array; "" and <<>> stand for an absent
\* field. The first is the example of the spec; the second has no score
\* and carries links and a citation marker in its title and content.
Items ==
  {[isNull |-> FALSE, title |-> <<"A">>, content |-> <<"c">>,
    url |-> <<"h", "t", "t", "p", ":", "/", "/", "x", "/">> \o Video \o <<"1">>,
    score |-> "0.5"],
   [isNull |-> FALSE, title |-> ExampleText,
    content |-> <<"w", "w", "w", ".", "b", " ", "d">>,
    url |-> <<"h", "t", "t", "p", ":", "/", "/", "y">>, score |-> ""]}

\* A null element of the results array.
NullItem == [isNull |-> TRUE, title |-> <<>>, content |-> <<>>, url |-> <<>>, score |-> ""]

\* Longest result list the aggregator returns.
MaxResults == 2

ResultLists == UNION {[1..n -> Items \cup {NullItem}] : n \in 0..MaxResults}

\* What response.json() yields: a syntax error, JSON null, an object
\* without results, an object whose results is not an array, or a list.
Payloads ==
  {[shape |-> sh, results |-> <<>>] :
      sh \in {"malformed", "null", "no_results", "not_array"}}
    \cup {[shape |-> "list", results |-> l] : l \in ResultLists}

\* HTTP responses of an upstream server.
Responses ==
  {[ok |-> TRUE, status |-> "200", statusText |-> "OK"],
   [ok |-> FALSE, status |-> "500", statusText |-> "Internal Server Error"],
   [ok |-> FALSE, status |-> "404", statusText |-> "Not Found"]}

NoResponse == [ok |-> FALSE, status |-> "", statusText |-> ""]

\* Bodies of a non-success aggregator response (response.text()).
ErrorBodies == {<<>>, <<"o", "o", "p", "s">>}

\* data.results || [] and the shapes on which lines 177-180 throw.
ResultsOf(payload) ==
  IF payload.shape = "malformed"
  THEN Throw(Err("SyntaxError", <<"Unexpected token < in JSON at position 0">>))
  ELSE IF payload.shape = "null"
  THEN Throw(Err("TypeError",
                 <<"Cannot read properties of null (reading 'results')">>))
  ELSE IF payload.shape = "not_array"
  THEN Throw(Err("TypeError", <<"(data.results || []).map is not a function">>))
  ELSE Return(payload.results)

\* A slot of the array Promise.all resolves with.
Pending == [done |-> FALSE, r |-> [title |-> <<>>, content |-> <<>>, url |-> <<>>, score |-> ""]]

Settled(r) == [done |-> TRUE, r |-> r]

\* A collection of the values in the order in which the promises settle.
StoreResultInSettleOrder(sl, i, r) ==
  [sl EXCEPT ![Min({k \in 1..Len(sl) : ~sl[k].done})] = Settled(r)]

\* Promise.all puts the value of the i-th promise at index i.
StoreResult(sl, i, r) == [sl EXCEPT ![i] = Settled(r)]

\* new Error(`SearXNG API error: ${status} ${statusText}\n${body}`)
ApiError(resp, body) ==
  Err("Error", <<"SearXNG API error: ", resp.status, " ", resp.statusText, "\n">> \o body)

\* The rejection of fetch or of a body read on a network failure.
NetworkError == Err("TypeError", <<"fetch failed">>)

\* ------------------------------------------------------------------------
\* Markdown Converter: fetchAndConvertToMarkdown, src/index.ts:217-248
\* ------------------------------------------------------------------------

\* timeoutMs: number = 10000
DefaultTimeoutMs == 10000

\* Time advances in steps of TickMs while a timer is pending, up to MaxElapsed.
TickMs == 5000

MaxElapsed == 15000

\* Pages a web server returns: the HTML is named, and
\* NodeHtmlMarkdown.translate gives the markdown text of each; on the
\* page "broken" the conversion throws.
Pages == {"plain", "link", "spaces", "broken"}

Translate(page) ==
  IF page = "broken" THEN Throw(Err("TypeError", <<"conversion failed">>))
  ELSE IF page = "plain" THEN Return(<<"h", "i">>)
  ELSE IF page = "link" THEN Return(ExampleText)
  ELSE Return(<<" ", "a", " ", "\n", "b", " ">>)

\* The rejection of a fetch or body read whose signal was aborted.
AbortError == Err("AbortError", <<"This operation was aborted">>)

TimeoutError(timeoutMs) ==
  Err("Error", <<"Request timed out after ", ToString(timeoutMs), "ms">>)

\* A catch block that rethrows whatever it caught.
ConverterCatchRethrow(error, timeoutMs) == error

\* The catch block (lines 240-244): what is thrown for a caught error.
ConverterCatch(error, timeoutMs) ==
  IF error.name = "AbortError" THEN TimeoutError(timeoutMs) ELSE error

\* A clearTimeout placed at the end of the try block instead of in finally.
FinallyOnReturnOnly(t, o) == IF t = "pending" /\ o.kind = "return" THEN "cleared" ELSE t

\* The finally block (line 246): clearTimeout on the timer, whatever the
\* outcome o of the try/catch; clearing a timer that has fired does nothing.
Finally(t, o) == IF t = "pending" THEN "cleared" ELSE t

\* Lines 233-239 once the body has been read.
ConvertBody(page) ==
  LET md == Translate(page)
  IN IF md.kind = "throw" THEN md ELSE Return(removeLinksFromText(md.value))

\* The outcome of the call for the outcome o of its try block.
ConverterOutcome(o, timeoutMs) ==
  IF o.kind = "throw" THEN Throw(ConverterCatch(o.err, timeoutMs)) ELSE o

NoOutcome == [kind |-> "none", value |-> <<>>, err |-> NoError]

\* ------------------------------------------------------------------------
\* Tool Dispatcher: the CallToolRequestSchema handler, src/index.ts:254-312
\* ------------------------------------------------------------------------

\* A success envelope without the notice.
SuccessEnvelopeBare(result) == [isError |-> FALSE, text |-> result]

\* Lines 280-283 and 289-292.
SuccessEnvelope(result) == [isError |-> FALSE, text |-> Notice \o result]

\* An unknown-tool envelope that is not flagged as an error.
UnknownToolEnvelopeOk(name) == [isError |-> FALSE, text |-> <<"Unknown tool: ", name>>]

\* Lines 295-298.
UnknownToolEnvelope(name) == [isError |-> TRUE, text |-> <<"Unknown tool: ", name>>]

\* Lines 300-310.
CatchEnvelope(error) == [isError |-> TRUE, text |-> <<"Error: ">> \o error.message]

\* A catch that handles plain Error objects only.
TryCatchPlainErrorOnly(o) ==
  IF o.kind = "throw" /\ o.err.name = "Error" THEN Return(CatchEnvelope(o.err)) ELSE o

\* The try/catch of the handler: a throw of its body becomes an envelope.
TryCatch(o) == IF o.kind = "throw" THEN Return(CatchEnvelope(o.err)) ELSE o

VARIABLES
  env,          \* process.env.SEARXNG_URL
  pc,           \* where the handler of the current invocation is suspended
  request,      \* request.params of the current invocation
  httpCalls,    \* outbound HTTP requests issued during the invocation
  response,     \* the HTTP response the handler holds
  items,        \* the results array the per-result callbacks were mapped over
  slots,        \* the array Promise.all is filling
  settled,      \* indices of the per-result promises, in the order they settled
  timer,        \* the converter's timeout: none, pending, fired, cleared
  elapsed,      \* milliseconds since the timer was installed
  aborted,      \* controller.signal.aborted
  convOutcome,  \* how the call of fetchAndConvertToMarkdown ended
  raised,       \* the error caught by the handler's catch block
  envelopes,    \* envelopes the handler returned for the invocation
  escaped,      \* TRUE iff the handler itself threw
  text,         \* normalizer input
  out,          \* removeLinksFromText(text)
  out2,         \* removeLinksFromText(out)
  npc           \* how often the normalizer was applied

dispatcherVars ==
  <<env, pc, request, httpCalls, response, items, slots, settled, timer, elapsed,
    aborted, convOutcome, raised, envelopes, escaped>>

normVars == <<text, out, out2, npc>>

vars == <<dispatcherVars, normVars>>

NoRequest == [name |-> "", args |-> [kind |-> "undefined", f |-> NoFields]]

\* The state between two invocations.
Idle ==
  /\ pc = "idle"
  /\ request = NoRequest
  /\ httpCalls = <<>>
  /\ response = NoResponse
  /\ items = <<>>
  /\ slots = <<>>
  /\ settled = <<>>
  /\ timer = "none"
  /\ elapsed = 0
  /\ aborted = FALSE
  /\ convOutcome = NoOutcome
  /\ raised = NoError
  /\ envelopes = <<>>
  /\ escaped = FALSE

NormOff == text = <<>> /\ out = <<>> /\ out2 = <<>> /\ npc = "off"

Init == env \in EnvUrls /\ Idle /\ NormOff

\* The handler settles with the outcome o of the body of its try block.
Settle(o) ==
  LET r == TryCatch(o)
  IN /\ pc' = "returned"
     /\ raised' = o.err
     /\ envelopes' = IF r.kind = "return" THEN Append(envelopes, r.value) ELSE envelopes
     /\ escaped' = (r.kind = "throw")

\* The converter call, whose timer is in state t, ends with the outcome o
\* of its try block, and the handler settles with it (lines 288-292).
SettleRead(t, o) ==
  LET c == ConverterOutcome(o, DefaultTimeoutMs)
  IN /\ convOutcome' = c
     /\ timer' = Finally(t, c)
     /\ Settle(IF c.kind = "return" THEN Return(SuccessEnvelope(c.value)) ELSE c)

\* The handler from its start to its first suspension or its return.
CallTool ==
  /\ pc = "idle"
  /\ \E name \in ToolNames, args \in ArgBags :
       /\ request' = [name |-> name, args |-> args]
       /\ IF Falsy(args)
          THEN /\ Settle(Throw(Err("Error", <<"No arguments provided">>)))
               /\ UNCHANGED <<httpCalls, timer, convOutcome>>
          ELSE IF name = WEB_SEARCH_TOOL
          THEN IF ~isSearXNGWebSearchArgs(args)
               THEN /\ Settle(Throw(Err("Error",
                              <<"Invalid arguments for searxng_web_search">>)))
                    /\ UNCHANGED <<httpCalls, timer, convOutcome>>
               ELSE LET req == SearchRequest(env, args.f)
                    IN IF req.kind = "throw"
                       THEN /\ Settle(req)
                            /\ UNCHANGED <<httpCalls, timer, convOutcome>>
                       ELSE /\ httpCalls' = Append(httpCalls, req.value)
                            /\ pc' = "search_fetch"
                            /\ UNCHANGED <<timer, convOutcome, raised, envelopes, escaped>>
          ELSE IF name = READ_URL_TOOL
          THEN IF args.f.url.t = "string" /\ args.f.url.v \in AbsoluteUrls
               THEN /\ timer' = "pending"
                    /\ httpCalls' = Append(httpCalls,
                         [target |-> args.f.url.v, path |-> "", params |-> <<>>])
                    /\ pc' = "read_fetch"
                    /\ UNCHANGED <<convOutcome, raised, envelopes, escaped>>
               ELSE \* the timer is set, and fetch rejects a URL it cannot parse
                    /\ SettleRead("pending", Throw(Err("TypeError", <<"Failed to parse URL">>)))
                    /\ UNCHANGED httpCalls
          ELSE /\ Settle(Return(UnknownToolEnvelope(name)))
               /\ UNCHANGED <<httpCalls, timer, convOutcome>>
  /\ UNCHANGED <<env, response, items, slots, settled, elapsed, aborted, normVars>>

\* fetch of the aggregator rejects: a network failure.
SearchFetchRejects ==
  /\ pc = "search_fetch"
  /\ Settle(Throw(NetworkError))
  /\ UNCHANGED <<env, request, httpCalls, response, items, slots, settled, timer, elapsed,
                 aborted, convOutcome, normVars>>

\* fetch of the aggregator resolves with a response (line 165).
SearchFetchResponds ==
  /\ pc = "search_fetch"
  /\ \E resp \in Responses :
       /\ response' = resp
       /\ pc' = IF resp.ok THEN "search_json" ELSE "search_text"
  /\ UNCHANGED <<env, request, httpCalls, items, slots, settled, timer, elapsed, aborted,
                 convOutcome, raised, envelopes, escaped, normVars>>

\* await response.text() of a non-success response settles (lines 169-175).
SearchErrorBody ==
  /\ pc = "search_text"
  /\ \/ \E body \in ErrorBodies : Settle(Throw(ApiError(response, body)))
     \/ Settle(Throw(NetworkError))
  /\ UNCHANGED <<env, request, httpCalls, response, items, slots, settled, timer, elapsed,
                 aborted, convOutcome, normVars>>

\* await response.json() settles, and the callbacks are mapped over the
\* results (lines 177-180).
SearchJson ==
  /\ pc = "search_json"
  /\ \/ \E payload \in Payloads :
          LET res == ResultsOf(payload)
          IN IF res.kind = "throw"
             THEN /\ Settle(res)
                  /\ UNCHANGED <<items, slots>>
             ELSE /\ items' = res.value
                  /\ slots' = [i \in 1..Len(res.value) |-> Pending]
                  /\ pc' = "search_all"
                  /\ UNCHANGED <<raised, envelopes, escaped>>
     \/ /\ Settle(Throw(NetworkError))
        /\ UNCHANGED <<items, slots>>
  /\ UNCHANGED <<env, request, httpCalls, response, settled, timer, elapsed,
                 aborted, convOutcome, normVars>>

\* The promise of the i-th callback settles; a rejection rejects
\* Promise.all at once.
ItemSettles ==
  /\ pc = "search_all"
  /\ \E i \in 1..Len(items) :
       /\ \A k \in 1..Len(settled) : settled[k] # i
       /\ settled' = Append(settled, i)
       /\ IF items[i].isNull
          THEN /\ Settle(Throw(Err("TypeError",
                         <<"Cannot read properties of null (reading 'score')">>)))
               /\ UNCHANGED slots
          ELSE /\ slots' = StoreResult(slots, i, ProcessResult(items[i]))
               /\ UNCHANGED <<pc, raised, envelopes, escaped>>
  /\ UNCHANGED <<env, request, httpCalls, response, items, timer, elapsed, aborted,
                 convOutcome, normVars>>

\* Promise.all resolves; the results are rendered and returned
\* (lines 204-214, 280-283).
SearchAllResolves ==
  /\ pc = "search_all"
  /\ Len(settled) = Len(items)
  /\ Settle(Return(SuccessEnvelope(
       RenderResults([i \in 1..Len(slots) |-> slots[i].r]))))
  /\ UNCHANGED <<env, request, httpCalls, response, items, slots, settled, timer, elapsed,
                 aborted, convOutcome, normVars>>

\* Time passes while the timer is pending.
Tick ==
  /\ timer = "pending"
  /\ elapsed < MaxElapsed
  /\ elapsed' = elapsed + TickMs
  /\ UNCHANGED <<env, pc, request, httpCalls, response, items, slots, settled, timer,
                 aborted, convOutcome, raised, envelopes, escaped, normVars>>

\* The timer callback of line 222: controller.abort().
TimerFires ==
  /\ timer = "pending"
  /\ elapsed >= DefaultTimeoutMs
  /\ timer' = "fired"
  /\ aborted' = TRUE
  /\ UNCHANGED <<env, pc, request, httpCalls, response, items, slots, settled, elapsed,
                 convOutcome, raised, envelopes, escaped, normVars>>

\* The pending fetch or body read rejects because the signal was aborted.
ReadAborted ==
  /\ pc \in {"read_fetch", "read_text"}
  /\ aborted
  /\ SettleRead(timer, Throw(AbortError))
  /\ UNCHANGED <<env, request, httpCalls, response, items, slots, settled, elapsed,
                 aborted, normVars>>

\* fetch of the page rejects: a network failure.
ReadFetchRejects ==
  /\ pc = "read_fetch"
  /\ ~aborted
  /\ SettleRead(timer, Throw(NetworkError))
  /\ UNCHANGED <<env, request, httpCalls, response, items, slots, settled, elapsed,
                 aborted, normVars>>

\* fetch of the page resolves with a response (lines 225-231).
ReadFetchResponds ==
  /\ pc = "read_fetch"
  /\ ~aborted
  /\ \E resp \in Responses :
       /\ response' = resp
       /\ IF resp.ok
          THEN /\ pc' = "read_text"
               /\ UNCHANGED <<timer, convOutcome, raised, envelopes, escaped>>
          ELSE SettleRead(timer, Throw(Err("Error",
                 <<"Failed to fetch the URL: ", resp.statusText>>)))
  /\ UNCHANGED <<env, request, httpCalls, items, slots, settled, elapsed, aborted, normVars>>

\* await response.text() settles; the body is converted and normalized
\* (lines 233-239).
ReadBody ==
  /\ pc = "read_text"
  /\ ~aborted
  /\ \/ \E page \in Pages : SettleRead(timer, ConvertBody(page))
     \/ SettleRead(timer, Throw(NetworkError))
  /\ UNCHANGED <<env, request, httpCalls, response, items, slots, settled, elapsed,
                 aborted, normVars>>

\* The transport sends the envelope; the next invocation starts afresh.
Respond ==
  /\ pc = "returned"
  /\ pc' = "idle"
  /\ request' = NoRequest
  /\ httpCalls' = <<>>
  /\ response' = NoResponse
  /\ items' = <<>>
  /\ slots' = <<>>
  /\ settled' = <<>>
  /\ timer' = "none"
  /\ elapsed' = 0
  /\ aborted' = FALSE
  /\ convOutcome' = NoOutcome
  /\ raised' = NoError
  /\ envelopes' = <<>>
  /\ escaped' = FALSE
  /\ UNCHANGED <<env, normVars>>

Next ==
  \/ CallTool
  \/ SearchFetchRejects
  \/ SearchFetchResponds
  \/ SearchErrorBody
  \/ SearchJson
  \/ ItemSettles
  \/ SearchAllResolves
  \/ Tick
  \/ TimerFires
  \/ ReadAborted
  \/ ReadFetchRejects
  \/ ReadFetchResponds
  \/ ReadBody
  \/ Respond

Spec == Init /\ [][Next]_vars

\* ------------------------------------------------------------------------
\* The normalizer applied to bounded inputs
\* ------------------------------------------------------------------------

\* Pieces the inputs are built from.
Fragments ==
  {<<"h", "t", "t", "p", ":", "/">>, <<"h", "t", "t", "p", "s", ":", "/">>,
   <<"/">>, <<"w", "w">>, <<"w", ".">>, <<"[">>, <<"]">>, <<"(">>, <<")">>,
   <<"[", "1", "]">>, <<"2">>, <<" ">>, <<"\n">>, <<"a">>}

\* Largest number of fragments in an input.
MaxFrags == 4

RECURSIVE Flatten(_)
Flatten(fs) == IF fs = <<>> THEN <<>> ELSE Head(fs) \o Flatten(Tail(fs))

\* The input is any concatenation of at most MaxFrags fragments.
InitNorm ==
  /\ env = ""
  /\ Idle
  /\ \E n \in 0..MaxFrags : \E fs \in [1..n -> Fragments] : text = Flatten(fs)
  /\ out = <<>>
  /\ out2 = <<>>
  /\ npc = "input"

\* removeLinksFromText is applied to the input.
Normalize ==
  /\ npc = "input"
  /\ out' = removeLinksFromText(text)
  /\ npc' = "once"
  /\ UNCHANGED <<dispatcherVars, text, out2>>

\* removeLinksFromText is applied to its own output.
NormalizeAgain ==
  /\ npc = "once"
  /\ out2' = removeLinksFromText(out)
  /\ npc' = "twice"
  /\ UNCHANGED <<dispatcherVars, text, out>>

NextNorm == Normalize \/ NormalizeAgain

SpecNorm == InitNorm /\ [][NextNorm]_vars

\* ------------------------------------------------------------------------
\* Properties
\* ------------------------------------------------------------------------

Done == pc = "returned"

KnownTools == {WEB_SEARCH_TOOL, READ_URL_TOOL}

StartsWith(t, prefix) == Len(t) >= Len(prefix) /\ SubSeq(t, 1, Len(prefix)) = prefix

HasToken(t, token) == \E k \in 1..Len(t) : t[k] = token

ArgsAbsent == request.args.kind \in {"undefined", "null"}

QueryIsString == request.args.kind = "object" /\ request.args.f.query.t = "string"

IsSuccessEnvelope(e) == ~e.isError /\ StartsWith(e.text, Notice) /\ raised = NoError

IsFailureEnvelope(e) ==
  e.isError /\ raised # NoError /\ e.text = <<"Error: ">> \o raised.message

IsUnknownToolEnvelope(e) ==
  e.isError /\ raised = NoError /\ e.text = <<"Unknown tool: ", request.name>>

\* C1 as stated: every completed invocation returned exactly one envelope,
\* no error escaped, and the envelope is a success envelope or an
\* 'Error: <message>' failure envelope - nothing else.
C1_TwoOutcomesOnly ==
  Done => /\ Len(envelopes) = 1
          /\ ~escaped
          /\ IsSuccessEnvelope(envelopes[1]) \/ IsFailureEnvelope(envelopes[1])

\* C1 amended: an invocation has no envelope before it completes and
\* exactly one when it has; no error escapes the handler; the envelope is a
\* success envelope, an 'Error: <message of the raised error>' failure
\* envelope, or - for an unknown tool name with a present argument bag -
\* the 'Unknown tool: <name>' envelope; at most one HTTP call is issued (no
\* retry) and an error envelope carries no result text.
C1_OneEnvelopePerInvocation ==
  /\ ~escaped
  /\ Len(httpCalls) <= 1
  /\ ~Done => envelopes = <<>>
  /\ Done =>
       /\ Len(envelopes) = 1
       /\ \/ IsSuccessEnvelope(envelopes[1]) /\ request.name \in KnownTools
          \/ IsFailureEnvelope(envelopes[1])
          \/ /\ IsUnknownToolEnvelope(envelopes[1])
             /\ request.name \notin KnownTools
             /\ ~ArgsAbsent
       /\ envelopes[1].isError => ~HasToken(envelopes[1].text, "Title: ")

\* An upstream failure after the HTTP call was issued became an envelope.
C1_Witness ==
  /\ Done
  /\ Len(httpCalls) = 1
  /\ raised.name = "SyntaxError"
  /\ envelopes = <<[isError |-> TRUE,
                    text |-> <<"Error: ", "Unexpected token < in JSON at position 0">>]>>

\* C2 as stated: an unknown tool name always yields 'Unknown tool: <name>'
\* with isError=true and no HTTP call, whatever the argument bag, an absent
\* one included.
C2_UnknownToolAnyArgs ==
  (Done /\ request.name \notin KnownTools) =>
     /\ envelopes = <<[isError |-> TRUE, text |-> <<"Unknown tool: ", request.name>>]>>
     /\ httpCalls = <<>>

\* C2 amended: an unknown tool name with a present (truthy) argument bag
\* yields 'Unknown tool: <name>' with isError=true; with an absent bag it
\* yields 'Error: No arguments provided'; in both cases no HTTP call is
\* issued during the invocation.
C2_UnknownTool ==
  (request.name \notin KnownTools) =>
     /\ httpCalls = <<>>
     /\ pc \in {"idle", "returned"}
     /\ Done =>
          envelopes =
            IF ArgsAbsent
            THEN <<[isError |-> TRUE, text |-> <<"Error: ", "No arguments provided">>]>>
            ELSE <<[isError |-> TRUE, text |-> <<"Unknown tool: ", request.name>>]>>

\* An unknown tool was called with an object as argument bag.
C2_Witness ==
  /\ Done
  /\ request.name = "foo"
  /\ request.args.kind = "object"
  /\ envelopes[1].text = <<"Unknown tool: ", "foo">>

\* C3 as stated: a search invocation without a string query - the bag
\* absent included - yields 'Error: Invalid arguments for searxng_web_search'
\* and issues no HTTP call.
C3_InvalidArgsAnyBag ==
  (Done /\ request.name = WEB_SEARCH_TOOL /\ ~QueryIsString) =>
     /\ envelopes = <<[isError |-> TRUE,
                       text |-> <<"Error: ", "Invalid arguments for searxng_web_search">>]>>
     /\ httpCalls = <<>>

\* C3 amended: a search invocation whose argument bag is present but has
\* no string query yields 'Error: Invalid arguments for searxng_web_search';
\* one whose argument bag is absent yields 'Error: No arguments provided';
\* either is decided before any HTTP call is issued.
C3_InvalidArgs ==
  (request.name = WEB_SEARCH_TOOL /\ ~QueryIsString) =>
     /\ httpCalls = <<>>
     /\ pc \in {"idle", "returned"}
     /\ Done =>
          envelopes =
            IF ArgsAbsent
            THEN <<[isError |-> TRUE, text |-> <<"Error: ", "No arguments provided">>]>>
            ELSE <<[isError |-> TRUE,
                    text |-> <<"Error: ", "Invalid arguments for searxng_web_search">>]>>

\* The search tool was called with a query that is a number.
C3_Witness ==
  /\ Done
  /\ request.name = WEB_SEARCH_TOOL
  /\ request.args.f.query = Num("5")
  /\ envelopes[1].text = <<"Error: ", "Invalid arguments for searxng_web_search">>

\* C4 as stated: the text of every returned envelope begins with the notice.
C4_NoticeOnEveryEnvelope ==
  \A k \in 1..Len(envelopes) : StartsWith(envelopes[k].text, Notice)

\* C4 amended: the text of a returned envelope begins with the notice if
\* and only if it is a success envelope (isError=false) of one of the two
\* tools; failure envelopes and the unknown-tool envelope begin with
\* 'Error: ' and 'Unknown tool: ' and carry no notice.
C4_NoticeOnSuccessOnly ==
  \A k \in 1..Len(envelopes) :
     LET e == envelopes[k]
     IN /\ StartsWith(e.text, Notice) <=> ~e.isError
        /\ e.isError => e.text[1] \in {"Error: ", "Unknown tool: "}
        /\ ~e.isError => request.name \in KnownTools

\* The read tool returned a converted page.
C4_Witness ==
  /\ Done
  /\ request.name = READ_URL_TOOL
  /\ envelopes = <<[isError |-> FALSE, text |-> Notice \o <<"S", "e", "e", " ", "d", "o", "c", "s">>]>>

\* C5: once the call of fetchAndConvertToMarkdown has returned or thrown,
\* its timer is not pending (it was cleared, or it had fired), and a timer
\* is pending only while the call awaits the fetch or the body.
C5_TimerReleased ==
  /\ convOutcome.kind # "none" => timer \in {"cleared", "fired"}
  /\ timer = "pending" => pc \in {"read_fetch", "read_text"} /\ convOutcome.kind = "none"
  /\ convOutcome.kind # "none" => ~ENABLED TimerFires

\* The call threw on a non-success status and left its timer cleared.
C5_Witness ==
  /\ convOutcome.kind = "throw"
  /\ convOutcome.err.message = <<"Failed to fetch the URL: ", "Not Found">>
  /\ timer = "cleared"

\* C6: a completed call of fetchAndConvertToMarkdown whose timer fired
\* threw 'Request timed out after <timeoutMs>ms' - so the invocation
\* returned that error and no converted text - and the timer fired no
\* earlier than timeoutMs; a completed call whose timer did not fire did
\* not throw the timeout error.
C6_TimeoutIffTimerFired ==
  convOutcome.kind # "none" =>
     /\ timer = "fired" <=> convOutcome = Throw(TimeoutError(DefaultTimeoutMs))
     /\ timer = "fired" =>
          /\ elapsed >= DefaultTimeoutMs
          /\ envelopes = <<[isError |-> TRUE,
                            text |-> <<"Error: ", "Request timed out after ",
                                       ToString(DefaultTimeoutMs), "ms">>]>>

\* The timer fired while the body of a 200 response was being read.
C6_Witness ==
  /\ Done
  /\ timer = "fired"
  /\ response.ok
  /\ convOutcome.err.message = <<"Request timed out after ", "10000", "ms">>

\* The text a search is expected to return for the upstream results.
ExpectedBlocks ==
  [i \in 1..Len(items) |-> RenderBlock(ProcessResult(items[i]))]

\* C7: the text of a successful search is the notice followed by one
\* four-line block per upstream result, in the order of the upstream array
\* and separated by blank lines, in whatever order the per-result promises
\* settled.
C7_OrderPreserved ==
  (Done /\ request.name = WEB_SEARCH_TOOL /\ ~envelopes[1].isError) =>
     LET t == envelopes[1].text
     IN /\ t = Notice \o JoinBlocks(ExpectedBlocks)
        /\ \A label \in {"Title: ", "\nDescription: ", "\nScore: ", "\nURL: "} :
              Cardinality({k \in 1..Len(t) : t[k] = label}) = Len(items)
        /\ Cardinality({k \in 1..Len(t) : t[k] = "\n\n"})
             = IF items = <<>> THEN 0 ELSE Len(items) - 1

\* Two different results whose promises settled in reverse order.
C7_Witness ==
  /\ Done
  /\ request.name = WEB_SEARCH_TOOL
  /\ ~envelopes[1].isError
  /\ Len(items) = 2
  /\ items[1] # items[2]
  /\ settled = <<2, 1>>

\* C8: the aggregator request carries time_range if and only if the
\* argument is the string day, month or year, and then that value; and a
\* search with a string query that issued no request failed on the base
\* URL or on pageno, never on time_range.
C8_TimeRangeFilter ==
  (request.name = WEB_SEARCH_TOOL) =>
     /\ \A k \in 1..Len(httpCalls) :
          LET params == httpCalls[k].params
              tr == request.args.f.time_range
          IN /\ "time_range" \in DOMAIN params
                  <=> (tr.t = "string" /\ tr.v \in {"day", "month", "year"})
             /\ "time_range" \in DOMAIN params => params["time_range"] = tr.v
     /\ (Done /\ QueryIsString /\ httpCalls = <<>>) =>
          \/ env = "searx.local"
          \/ request.args.f.pageno = Null

\* A request was issued for time_range 'week', without the parameter.
C8_Witness ==
  /\ request.name = WEB_SEARCH_TOOL
  /\ request.args.f.time_range = Str("week")
  /\ Len(httpCalls) = 1
  /\ DOMAIN httpCalls[1].params = {"q", "format", "pageno"}

\* A request was issued for time_range 'month', with the parameter.
C8_WitnessForwarded ==
  /\ request.name = WEB_SEARCH_TOOL
  /\ request.args.f.time_range = Str("month")
  /\ Len(httpCalls) = 1
  /\ httpCalls[1].params["time_range"] = "month"

HasHttpRun(s) == \E i \in 1..Len(s) : HttpMatchEnd(s, i) # 0

HasWwwRun(s) == \E i \in 1..Len(s) : WwwMatchEnd(s, i) # 0

HasMdLink(s) == \E i \in 1..Len(s) : MdLinkMatch(s, i)[2] # 0

\* C9: the output of removeLinksFromText contains no http:// or https://
\* run, no www. run and no markdown link [label](target).
C9_NoLinkRemains ==
  npc \in {"once", "twice"} => ~HasHttpRun(out) /\ ~HasWwwRun(out) /\ ~HasMdLink(out)

\* C10: removeLinksFromText applied to its own output changes nothing.
C10_Idempotent == npc = "twice" => out2 = out
====
